---- MODULE Spec2Model ----
(***************************************************************************)
(* A model of ChartHandler (src/chart_handler/chart.py) and of the          *)
(* configuration it reads (src/config.py).                                  *)
(*                                                                          *)
(* Two execution contexts act on the state:                                 *)
(*   - the GUI thread, which runs ChartHandler's callbacks one at a time    *)
(*     (pc is its position; "idle" means no callback is running);           *)
(*   - the trading client's callback context, which pushes bars onto the    *)
(*     shared queue and assigns client.order_id.  Its code is not part of   *)
(*     the sources, so its two actions follow the written specification.    *)
(* A callback is cut into steps wherever the other context can be observed  *)
(* to interleave: every get_nowait of the drain loop, the two sleeps, and   *)
(* the two reads of client.order_id.                                        *)
(***************************************************************************)
EXTENDS Integers, Sequences, FiniteSets, TLC

\* ------------------------------------------------------------------ bounds
MaxCalls == 3      \* callbacks started on the GUI thread
MaxBars  == 2      \* bars pushed by the trading client
MaxIds   == 2      \* order ids delivered by the trading client

\* ------------------------------------------------------------------ config
INITIAL_SYMBOL == "AAPL"
DEFAULT_TIMEFRAME == "1 min"
DEFAULT_TIMEFRAME_OPTIONS == {"1 min", "5 mins", "15 mins", "1 hour"}

\* Values the environment may give DEFAULT_CURRENCY and
\* DEFAULT_HISTORICAL_DURATION: the fallback defaults, and one other setting.
Configs == {[currency |-> "USD", duration |-> "30 D"],
            [currency |-> "EUR", duration |-> "1 W"]}

\* Inputs of the callbacks.
Symbols == {"AAPL", "MSFT"}
Timeframes == {"1 min", "5 mins"}
Keys    == {"B", "S"}

\* None, as the value of client.order_id before any id has arrived.
NoOrderId == 0

VARIABLES
    config,       \* DEFAULT_CURRENCY, DEFAULT_HISTORICAL_DURATION (fixed at load)
    client,       \* self.client: "none" or "attached"
    order_id,     \* client.order_id
    pendingIds,   \* reqIds requests sent and not yet answered
    idsDelivered, \* ids the client has delivered so far
    data_queue,   \* shared.queue_manager.data_queue
    nextBar,      \* identity of the next bar the client pushes
    topbar,       \* the widget's textbox 'symbol' and switcher 'timeframe'
    dataset,      \* what chart.set last displayed
    spinner,      \* chart.spinner
    watermark,    \* chart.watermark
    histReqs,     \* reqHistoricalData calls received by the client
    reqIdsCalls,  \* reqIds calls received by the client
    orders,       \* placeOrder calls received by the client
    log,          \* logger: number of warnings and of errors
    pc,           \* position of the GUI thread
    frame,        \* arguments and locals of the running callback
    call,         \* observation: the running or last callback, with the state it started in
    calls,        \* callbacks started
    drains,       \* observation: the bars collected by each finished update_chart
    touched       \* observation: <<context, state, mode>> of every access

vars == <<config, client, order_id, pendingIds, idsDelivered, data_queue, nextBar,
          topbar, dataset, spinner, watermark, histReqs, reqIdsCalls, orders, log,
          pc, frame, call, calls, drains, touched>>

clientVars == <<order_id, pendingIds, idsDelivered, nextBar>>
widgetVars == <<topbar, dataset, spinner, watermark>>
sentVars   == <<histReqs, reqIdsCalls, orders>>

\* ------------------------------------------------------------------ helpers
NoFrame == [op |-> "none", symbol |-> "", timeframe |-> "", key |-> "",
            order_action |-> "", bars |-> <<>>]

\* The observation taken when a callback starts.
Started(op, symbol, timeframe, key) ==
    [op |-> op, symbol |-> symbol, timeframe |-> timeframe, key |-> key,
     outcome |-> "running", client0 |-> client,
     reqs0 |-> Len(histReqs), ids0 |-> reqIdsCalls, orders0 |-> Len(orders),
     warnings0 |-> log.warning, errors0 |-> log.error,
     queue0 |-> data_queue, dataset0 |-> dataset, sets |-> 0,
     topbar0 |-> topbar, order_id_seen |-> NoOrderId, pushed |-> FALSE]

Touch(ctx, accesses) == touched' = touched \cup {<<ctx, a[1], a[2]>> : a \in accesses}

\* pandas.DataFrame(bars): one row per collected bar, in order; no columns
\* when there is nothing to take them from.
BarColumns == {"id", "req"}
DataFrame(bars) == [rows |-> bars, columns |-> IF Len(bars) = 0 THEN {} ELSE BarColumns]
\* DataFrame.empty: any axis of length 0.
DfEmpty(df) == Len(df.rows) = 0 \/ df.columns = {}

\* ------------------------------------------------------------------ Init
Init ==
    /\ config \in Configs
    /\ client = "none"
    /\ order_id = NoOrderId
    /\ pendingIds = 0
    /\ idsDelivered = 0
    /\ data_queue = <<>>
    /\ nextBar = 1
    /\ topbar = [symbol |-> INITIAL_SYMBOL, timeframe |-> DEFAULT_TIMEFRAME]
    /\ dataset = <<>>
    /\ spinner = FALSE
    /\ watermark = ""
    /\ histReqs = <<>>
    /\ reqIdsCalls = 0
    /\ orders = <<>>
    /\ log = [warning |-> 0, error |-> 0]
    /\ pc = "idle"
    /\ frame = NoFrame
    /\ call = [Started("none", "", "", "") EXCEPT !.outcome = "ok"]
    /\ calls = 0
    /\ drains = <<>>
    /\ touched = {}

\* ------------------------------------------------------------------ set_client
SetClient ==
    /\ pc = "idle"
    /\ client = "none"
    /\ client' = "attached"
    /\ Touch("gui", {<<"client", "w">>})
    /\ UNCHANGED <<config, clientVars, data_queue, widgetVars, sentVars, log, pc,
                   frame, call, calls, drains>>

\* ------------------------------------------------------------------ update_chart
\* Lines 93-96: bars = [], spinner on, enter the drain loop.
UpdateChartBegin ==
    /\ pc = "idle"
    /\ calls < MaxCalls
    /\ calls' = calls + 1
    /\ frame' = [NoFrame EXCEPT !.op = "update_chart"]
    /\ call' = Started("update_chart", "", "", "")
    /\ spinner' = TRUE
    /\ pc' = "uc_drain"
    /\ Touch("gui", {<<"spinner", "w">>})
    /\ UNCHANGED <<config, client, clientVars, data_queue, topbar, dataset, watermark,
                   sentVars, log, drains>>

\* A drain loop that puts each bar in front of those already collected.
UpdateChartGet_Lifo ==
    /\ pc = "uc_drain"
    /\ data_queue # <<>>
    /\ frame' = [frame EXCEPT !.bars = <<Head(data_queue)>> \o @]
    /\ data_queue' = Tail(data_queue)
    /\ Touch("gui", {<<"data_queue", "w">>})
    /\ UNCHANGED <<config, client, clientVars, widgetVars, sentVars, log, pc, call,
                   calls, drains>>

\* A drain loop that takes two bars off the queue per round and keeps the first.
UpdateChartGet_SkipOne ==
    /\ pc = "uc_drain"
    /\ data_queue # <<>>
    /\ frame' = [frame EXCEPT !.bars = Append(@, Head(data_queue))]
    /\ data_queue' = IF Len(data_queue) >= 2 THEN Tail(Tail(data_queue))
                     ELSE Tail(data_queue)
    /\ Touch("gui", {<<"data_queue", "w">>})
    /\ UNCHANGED <<config, client, clientVars, widgetVars, sentVars, log, pc, call,
                   calls, drains>>

\* Lines 98-100: one get_nowait that finds a bar.
UpdateChartGet ==
    /\ pc = "uc_drain"
    /\ data_queue # <<>>
    /\ frame' = [frame EXCEPT !.bars = Append(@, Head(data_queue))]
    /\ data_queue' = Tail(data_queue)
    /\ Touch("gui", {<<"data_queue", "w">>})
    /\ UNCHANGED <<config, client, clientVars, widgetVars, sentVars, log, pc, call,
                   calls, drains>>

\* A finally block without the test of df.empty: the chart is set every time.
UpdateChartEmpty_AlwaysSet ==
    /\ pc = "uc_drain"
    /\ data_queue = <<>>
    /\ dataset' = DataFrame(frame.bars).rows
    /\ log' = log
    /\ call' = [call EXCEPT !.outcome = "ok", !.sets = 1]
    /\ spinner' = FALSE
    /\ drains' = Append(drains, frame.bars)
    /\ frame' = NoFrame
    /\ pc' = "idle"
    /\ Touch("gui", {<<"data_queue", "r">>, <<"dataset", "w">>, <<"spinner", "w">>})
    /\ UNCHANGED <<config, client, clientVars, data_queue, topbar, watermark, sentVars,
                   calls>>

\* A finally block that adds the collected bars to the displayed ones.
UpdateChartEmpty_Append ==
    /\ pc = "uc_drain"
    /\ data_queue = <<>>
    /\ LET df == DataFrame(frame.bars) IN
         IF ~DfEmpty(df)
         THEN /\ dataset' = dataset \o df.rows
              /\ log' = log
              /\ call' = [call EXCEPT !.outcome = "ok", !.sets = 1]
         ELSE /\ dataset' = dataset
              /\ log' = [log EXCEPT !.warning = @ + 1]
              /\ call' = [call EXCEPT !.outcome = "ok"]
    /\ spinner' = FALSE
    /\ drains' = Append(drains, frame.bars)
    /\ frame' = NoFrame
    /\ pc' = "idle"
    /\ Touch("gui", {<<"data_queue", "r">>, <<"dataset", "w">>, <<"spinner", "w">>})
    /\ UNCHANGED <<config, client, clientVars, data_queue, topbar, watermark, sentVars,
                   calls>>

\* A drain loop that also stops once it has collected one bar.
UpdateChartEmpty_Budget ==
    /\ pc = "uc_drain"
    /\ data_queue = <<>> \/ Len(frame.bars) >= 1
    /\ LET df == DataFrame(frame.bars) IN
         IF ~DfEmpty(df)
         THEN /\ dataset' = df.rows
              /\ log' = log
              /\ call' = [call EXCEPT !.outcome = "ok", !.sets = 1]
         ELSE /\ dataset' = dataset
              /\ log' = [log EXCEPT !.warning = @ + 1]
              /\ call' = [call EXCEPT !.outcome = "ok"]
    /\ spinner' = FALSE
    /\ drains' = Append(drains, frame.bars)
    /\ frame' = NoFrame
    /\ pc' = "idle"
    /\ Touch("gui", {<<"data_queue", "r">>, <<"dataset", "w">>, <<"spinner", "w">>})
    /\ UNCHANGED <<config, client, clientVars, data_queue, topbar, watermark, sentVars,
                   calls>>

\* Lines 98, 101-110: get_nowait raises queue.Empty; the finally block sets the
\* chart or warns; spinner off.
UpdateChartEmpty ==
    /\ pc = "uc_drain"
    /\ data_queue = <<>>
    /\ LET df == DataFrame(frame.bars) IN
         IF ~DfEmpty(df)
         THEN /\ dataset' = df.rows
              /\ log' = log
              /\ call' = [call EXCEPT !.outcome = "ok", !.sets = 1]
         ELSE /\ dataset' = dataset
              /\ log' = [log EXCEPT !.warning = @ + 1]
              /\ call' = [call EXCEPT !.outcome = "ok"]
    /\ spinner' = FALSE
    /\ drains' = Append(drains, frame.bars)
    /\ frame' = NoFrame
    /\ pc' = "idle"
    /\ Touch("gui", {<<"data_queue", "r">>, <<"dataset", "w">>, <<"spinner", "w">>})
    /\ UNCHANGED <<config, client, clientVars, data_queue, topbar, watermark, sentVars,
                   calls>>

\* ------------------------------------------------------------------ trading client
\* The client's callback context delivers one bar of the answer to a request.
ClientPushBar ==
    /\ nextBar <= MaxBars
    /\ \E r \in 1..Len(histReqs) :
         data_queue' = Append(data_queue, [id |-> nextBar, req |-> r])
    /\ nextBar' = nextBar + 1
    /\ call' = [call EXCEPT !.pushed = @ \/ (pc \in {"uc_drain"})]
    /\ Touch("client", {<<"data_queue", "w">>})
    /\ UNCHANGED <<config, client, order_id, pendingIds, idsDelivered, widgetVars,
                   sentVars, log, pc, frame, calls, drains>>

\* The client answers one reqIds request: nextValidId assigns client.order_id.
ClientNextValidId ==
    /\ pendingIds > 0
    /\ idsDelivered < MaxIds
    /\ order_id' = idsDelivered + 1
    /\ idsDelivered' = idsDelivered + 1
    /\ pendingIds' = pendingIds - 1
    /\ Touch("client", {<<"order_id", "w">>})
    /\ UNCHANGED <<config, client, data_queue, nextBar, widgetVars, sentVars, log, pc,
                   frame, call, calls, drains>>

\* ------------------------------------------------------------------ request_data
\* request_data runs as the body of on_timeframe_selection and of on_search:
\* frame.symbol and frame.timeframe are its arguments.

\* An unhandled exception ends the running callback.
Raise ==
    /\ call' = [call EXCEPT !.outcome = "error"]
    /\ frame' = NoFrame
    /\ pc' = "idle"

Return ==
    /\ call' = [call EXCEPT !.outcome = "ok"]
    /\ frame' = NoFrame
    /\ pc' = "idle"

Contract(symbol, currency) ==
    [symbol |-> symbol, secType |-> "STK", exchange |-> "SMART", currency |-> currency]

\* A request whose contract carries a fixed currency instead of the configured one.
HistoricalDataRequest_UsdOnly(symbol, timeframe) ==
    [requestId |-> 2,
     contract |-> Contract(symbol, "USD"),
     endDateTime |-> "",
     durationStr |-> config.duration,
     barSizeSetting |-> timeframe,
     whatToShow |-> "TRADES",
     useRTH |-> TRUE,
     formatDate |-> 2,
     keepUpToDate |-> FALSE,
     chartOptions |-> <<>>]

\* Lines 123-144: the arguments of client.reqHistoricalData.
HistoricalDataRequest(symbol, timeframe) ==
    [requestId |-> 2,
     contract |-> Contract(symbol, config.currency),
     endDateTime |-> "",
     durationStr |-> config.duration,
     barSizeSetting |-> timeframe,
     whatToShow |-> "TRADES",
     useRTH |-> TRUE,
     formatDate |-> 2,
     keepUpToDate |-> FALSE,
     chartOptions |-> <<>>]

\* A request_data that returns quietly when no client is attached.
RequestDataIssue_SkipWithoutClient ==
    /\ pc = "rd_begin"
    /\ spinner' = TRUE
    /\ Touch("gui", {<<"spinner", "w">>, <<"client", "r">>})
    /\ IF client = "none"
       THEN /\ Return
            /\ histReqs' = histReqs
       ELSE /\ histReqs' = Append(histReqs, HistoricalDataRequest(frame.symbol, frame.timeframe))
            /\ pc' = "rd_sleep"
            /\ UNCHANGED <<frame, call>>
    /\ UNCHANGED <<config, client, clientVars, data_queue, topbar, dataset, watermark,
                   reqIdsCalls, orders, log, calls, drains>>

\* Lines 120-144: spinner on, build the contract, call the client.  With no
\* client attached the call is an attribute access on None.
RequestDataIssue ==
    /\ pc = "rd_begin"
    /\ spinner' = TRUE
    /\ Touch("gui", {<<"spinner", "w">>, <<"client", "r">>})
    /\ IF client = "none"
       THEN /\ Raise
            /\ histReqs' = histReqs
       ELSE /\ histReqs' = Append(histReqs, HistoricalDataRequest(frame.symbol, frame.timeframe))
            /\ pc' = "rd_sleep"
            /\ UNCHANGED <<frame, call>>
    /\ UNCHANGED <<config, client, clientVars, data_queue, topbar, dataset, watermark,
                   reqIdsCalls, orders, log, calls, drains>>

\* A request_data that leaves the watermark as it was.
RequestDataReturn_NoWatermark ==
    /\ pc = "rd_sleep"
    /\ watermark' = watermark
    /\ spinner' = FALSE
    /\ Touch("gui", {<<"spinner", "w">>})
    /\ IF frame.op = "on_search"
       THEN /\ pc' = "os_set"
            /\ UNCHANGED <<frame, call>>
       ELSE Return
    /\ UNCHANGED <<config, client, clientVars, data_queue, topbar, dataset, sentVars,
                   log, calls, drains>>

\* Lines 146-148, after the sleep: watermark, spinner off, back to the caller.
RequestDataReturn ==
    /\ pc = "rd_sleep"
    /\ watermark' = frame.symbol
    /\ spinner' = FALSE
    /\ Touch("gui", {<<"watermark", "w">>, <<"spinner", "w">>})
    /\ IF frame.op = "on_search"
       THEN /\ pc' = "os_set"
            /\ UNCHANGED <<frame, call>>
       ELSE Return
    /\ UNCHANGED <<config, client, clientVars, data_queue, topbar, dataset, sentVars,
                   log, calls, drains>>

\* ------------------------------------------------------------------ on_timeframe_selection
\* A handler that requests the initial symbol instead of the one displayed.
OnTimeframeSelection_InitialSymbol(timeframe) ==
    /\ pc = "idle"
    /\ calls < MaxCalls
    /\ calls' = calls + 1
    /\ topbar' = [topbar EXCEPT !.timeframe = timeframe]
    /\ frame' = [NoFrame EXCEPT !.op = "on_timeframe_selection",
                                !.symbol = INITIAL_SYMBOL, !.timeframe = timeframe]
    /\ call' = Started("on_timeframe_selection", INITIAL_SYMBOL, timeframe, "")
    /\ pc' = "rd_begin"
    /\ Touch("gui", {<<"topbar_symbol", "r">>, <<"topbar_timeframe", "r">>})
    /\ UNCHANGED <<config, client, clientVars, data_queue, dataset, spinner, watermark,
                   sentVars, log, drains>>

\* The switcher takes its new value, then lines 67-71 read the widget and call
\* request_data.
OnTimeframeSelection(timeframe) ==
    /\ pc = "idle"
    /\ calls < MaxCalls
    /\ calls' = calls + 1
    /\ topbar' = [topbar EXCEPT !.timeframe = timeframe]
    /\ frame' = [NoFrame EXCEPT !.op = "on_timeframe_selection",
                                !.symbol = topbar.symbol, !.timeframe = timeframe]
    /\ call' = Started("on_timeframe_selection", topbar.symbol, timeframe, "")
    /\ pc' = "rd_begin"
    /\ Touch("gui", {<<"topbar_symbol", "r">>, <<"topbar_timeframe", "r">>})
    /\ UNCHANGED <<config, client, clientVars, data_queue, dataset, spinner, watermark,
                   sentVars, log, drains>>

\* ------------------------------------------------------------------ on_search
\* A handler that updates the display before it calls request_data.
OnSearch_SetFirst(searched_string) ==
    /\ pc = "idle"
    /\ calls < MaxCalls
    /\ calls' = calls + 1
    /\ topbar' = [topbar EXCEPT !.symbol = searched_string]
    /\ frame' = [NoFrame EXCEPT !.op = "on_search", !.symbol = searched_string,
                                !.timeframe = topbar.timeframe]
    /\ call' = Started("on_search", searched_string, topbar.timeframe, "")
    /\ pc' = "rd_begin"
    /\ Touch("gui", {<<"topbar_timeframe", "r">>, <<"topbar_symbol", "w">>})
    /\ UNCHANGED <<config, client, clientVars, data_queue, dataset, spinner, watermark,
                   sentVars, log, drains>>

\* Lines 81-83: read the selected timeframe and call request_data.
OnSearch(searched_string) ==
    /\ pc = "idle"
    /\ calls < MaxCalls
    /\ calls' = calls + 1
    /\ frame' = [NoFrame EXCEPT !.op = "on_search", !.symbol = searched_string,
                                !.timeframe = topbar.timeframe]
    /\ call' = Started("on_search", searched_string, topbar.timeframe, "")
    /\ pc' = "rd_begin"
    /\ Touch("gui", {<<"topbar_timeframe", "r">>})
    /\ UNCHANGED <<config, client, clientVars, data_queue, widgetVars, sentVars, log,
                   drains>>

\* Line 84, after request_data has returned.
OnSearchSet ==
    /\ pc = "os_set"
    /\ topbar' = [topbar EXCEPT !.symbol = frame.symbol]
    /\ Return
    /\ Touch("gui", {<<"topbar_symbol", "w">>})
    /\ UNCHANGED <<config, client, clientVars, data_queue, dataset, spinner, watermark,
                   sentVars, log, calls, drains>>

\* ------------------------------------------------------------------ place_order
\* The two sides exchanged.
OrderAction_Swapped(key) == IF key = "B" THEN "SELL" ELSE "BUY"

\* Line 174.
OrderAction(key) == IF key = "B" THEN "BUY" ELSE "SELL"

\* Lines 168-172: the contract of an order.
OrderContract(symbol) ==
    [symbol |-> symbol, secType |-> "STK", exchange |-> "SMART", currency |-> "USD"]

\* Lines 182-185.
MarketOrder(action) == [orderType |-> "MKT", totalQuantity |-> 1, action |-> action]

\* A test of client.order_id that always passes.
Truthy_Always(id) == TRUE

\* Line 180: the truth value of client.order_id (None and 0 are both false).
Truthy(id) == id # NoOrderId

\* Lines 166-177: read the symbol, choose the side, ask the client for an id.
PlaceOrder(key) ==
    /\ pc = "idle"
    /\ calls < MaxCalls
    /\ calls' = calls + 1
    /\ Touch("gui", {<<"topbar_symbol", "r">>, <<"client", "r">>})
    /\ IF client = "none"
       THEN /\ call' = [Started("place_order", topbar.symbol, "", key)
                           EXCEPT !.outcome = "error"]
            /\ UNCHANGED <<frame, pc, reqIdsCalls, pendingIds>>
       ELSE /\ call' = Started("place_order", topbar.symbol, "", key)
            /\ frame' = [NoFrame EXCEPT !.op = "place_order", !.key = key,
                                        !.symbol = topbar.symbol,
                                        !.order_action = OrderAction(key)]
            /\ reqIdsCalls' = reqIdsCalls + 1
            /\ pendingIds' = pendingIds + 1
            /\ pc' = "po_sleep"
    /\ UNCHANGED <<config, client, order_id, idsDelivered, nextBar, data_queue,
                   widgetVars, histReqs, orders, log, drains>>

\* Lines 178-180 and 188-189: after the sleep, test client.order_id.
PlaceOrderCheck ==
    /\ pc = "po_sleep"
    /\ Touch("gui", {<<"order_id", "r">>})
    /\ IF Truthy(order_id)
       THEN /\ pc' = "po_submit"
            /\ call' = [call EXCEPT !.order_id_seen = order_id]
            /\ UNCHANGED <<frame, log>>
       ELSE /\ log' = [log EXCEPT !.error = @ + 1]
            /\ Return
    /\ UNCHANGED <<config, client, clientVars, data_queue, widgetVars, sentVars, calls,
                   drains>>

\* A submission that clears client.order_id once it has used it.
PlaceOrderSubmit_ConsumeId ==
    /\ pc = "po_submit"
    /\ orders' = Append(orders, [orderId |-> order_id,
                                 contract |-> OrderContract(frame.symbol),
                                 order |-> MarketOrder(frame.order_action)])
    /\ order_id' = NoOrderId
    /\ Return
    /\ Touch("gui", {<<"order_id", "r">>, <<"order_id", "w">>, <<"client", "r">>})
    /\ UNCHANGED <<config, client, pendingIds, idsDelivered, nextBar, data_queue,
                   widgetVars, histReqs, reqIdsCalls, log, calls, drains>>

\* Lines 181-187: build the order and submit it under client.order_id, read again.
PlaceOrderSubmit ==
    /\ pc = "po_submit"
    /\ orders' = Append(orders, [orderId |-> order_id,
                                 contract |-> OrderContract(frame.symbol),
                                 order |-> MarketOrder(frame.order_action)])
    /\ Return
    /\ Touch("gui", {<<"order_id", "r">>, <<"client", "r">>})
    /\ UNCHANGED <<config, client, clientVars, data_queue, widgetVars, histReqs,
                   reqIdsCalls, log, calls, drains>>

\* ------------------------------------------------------------------ Next
Next ==
    \/ SetClient
    \/ UpdateChartBegin
    \/ UpdateChartGet
    \/ UpdateChartEmpty
    \/ RequestDataIssue
    \/ RequestDataReturn
    \/ \E tf \in Timeframes : OnTimeframeSelection(tf)
    \/ \E s \in Symbols : OnSearch(s)
    \/ OnSearchSet
    \/ \E k \in Keys : PlaceOrder(k)
    \/ PlaceOrderCheck
    \/ PlaceOrderSubmit
    \/ ClientPushBar
    \/ ClientNextValidId

Spec == Init /\ [][Next]_vars

\* The GUI thread keeps running: a drain loop that can take its next step
\* (a get_nowait that returns a bar, or one that raises queue.Empty) takes it.
FairSpec == Spec /\ WF_vars(UpdateChartGet) /\ WF_vars(UpdateChartEmpty)

\* ================================================================== claims
Last(seq) == seq[Len(seq)]

\* An update_chart call returns in this step.
UpdateChartReturns == call.op = "update_chart" /\ pc = "uc_drain" /\ pc' = "idle"

\* The running or last callback went through request_data and request_data
\* has returned to it.
RequestDataReturned ==
    /\ call.op \in {"on_timeframe_selection", "on_search"}
    /\ pc = "os_set" \/ call.outcome = "ok"

\* The fields a historical-data request is said to carry.
CarriesRequest(r, symbol, timeframe) ==
    /\ r.contract.symbol = symbol
    /\ r.contract.secType = "STK"
    /\ r.contract.exchange = "SMART"
    /\ r.contract.currency = config.currency
    /\ r.barSizeSetting = timeframe
    /\ r.durationStr = config.duration
    /\ r.useRTH = TRUE
    /\ r.keepUpToDate = FALSE

\* ------------------------------------------------------------------ C1
\* C1 as stated: an update_chart call during which nothing is pushed ends with
\* the displayed dataset equal to the bars that were in the queue when it was
\* called, in arrival order, and with the queue empty -- for every such
\* sequence of bars, the empty one included.
C1_Original ==
    [][(UpdateChartReturns /\ ~call'.pushed)
         => (dataset' = call.queue0 /\ data_queue' = <<>>)]_vars

\* C1, amended: for every non-empty sequence of bars in the queue when
\* update_chart is called (nothing pushed during the call), the dataset
\* displayed when the call returns equals exactly those bars in arrival order,
\* and the queue is empty.
C1_Theorem ==
    [][(UpdateChartReturns /\ ~call'.pushed /\ call.queue0 # <<>>)
         => (dataset' = call.queue0 /\ data_queue' = <<>>)]_vars

C1_Witness ==
    /\ call.op = "update_chart" /\ call.outcome = "ok" /\ ~call.pushed
    /\ Len(call.queue0) >= 2
    /\ call.queue0[1].id < call.queue0[2].id
    /\ dataset = call.queue0

\* ------------------------------------------------------------------ C2
\* C2: an update_chart call that finds the queue empty (empty when called,
\* nothing pushed during the call) leaves the displayed dataset as it was,
\* does not call chart.set, logs exactly one warning and no error, and
\* returns normally.
C2_Theorem ==
    (/\ call.op = "update_chart" /\ call.outcome # "running"
     /\ call.queue0 = <<>> /\ ~call.pushed)
    => /\ dataset = call.dataset0
       /\ call.sets = 0
       /\ log.warning = call.warnings0 + 1
       /\ log.error = call.errors0
       /\ call.outcome = "ok"

C2_Witness ==
    /\ call.op = "update_chart" /\ call.outcome = "ok"
    /\ call.queue0 = <<>> /\ ~call.pushed
    /\ dataset # <<>>
    /\ dataset = call.dataset0
    /\ log.warning = call.warnings0 + 1

\* ------------------------------------------------------------------ C3
RECURSIVE LastNonEmpty(_)
LastNonEmpty(batches) ==
    IF batches = <<>> THEN <<>>
    ELSE IF Last(batches) # <<>> THEN Last(batches)
    ELSE LastNonEmpty(SubSeq(batches, 1, Len(batches) - 1))

Elems(seq) == {seq[i] : i \in 1..Len(seq)}

\* C3: the displayed dataset is always exactly the bars collected by the most
\* recent update_chart call that collected at least one bar (nothing before
\* the first such call); bars shown by an earlier call are gone.
C3_Theorem == dataset = LastNonEmpty(drains)

C3_Witness ==
    \E i, j \in 1..Len(drains) :
        /\ i < j
        /\ drains[i] # <<>> /\ drains[j] # <<>>
        /\ dataset = drains[j]
        /\ Elems(drains[i]) \cap Elems(dataset) = {}

\* ------------------------------------------------------------------ C4
\* C4: with a client attached, a call of request_data(symbol, timeframe) never
\* fails and has, once it returned, put exactly one historical-data request on
\* the client: the given symbol, STK, SMART, the configured currency, the given
\* timeframe as bar size, the configured duration, useRTH true, keepUpToDate
\* false.
C4_Theorem ==
    (call.op \in {"on_timeframe_selection", "on_search"} /\ call.client0 = "attached")
    => /\ call.outcome # "error"
       /\ Len(histReqs) \in {call.reqs0, call.reqs0 + 1}
       /\ pc = "rd_begin" => Len(histReqs) = call.reqs0
       /\ RequestDataReturned =>
            /\ Len(histReqs) = call.reqs0 + 1
            /\ CarriesRequest(Last(histReqs), call.symbol, call.timeframe)

C4_Witness ==
    /\ RequestDataReturned /\ call.client0 = "attached" /\ call.outcome = "ok"
    /\ call.symbol = "AAPL" /\ call.timeframe = "5 mins"
    /\ config.currency # "USD"
    /\ Len(histReqs) = call.reqs0 + 1
    /\ CarriesRequest(Last(histReqs), "AAPL", "5 mins")

\* ------------------------------------------------------------------ C5
\* C5: in on_search(s) the displayed symbol is not changed as long as the call
\* has issued no request; once on_search has returned, exactly one request was
\* issued, for s and the timeframe selected when the search was made, and the
\* displayed symbol is s.
C5_Theorem ==
    call.op = "on_search"
    => /\ Len(histReqs) = call.reqs0 => topbar.symbol = call.topbar0.symbol
       /\ call.outcome = "running" => topbar.symbol = call.topbar0.symbol
       /\ call.outcome = "ok" =>
            /\ Len(histReqs) = call.reqs0 + 1
            /\ Last(histReqs).contract.symbol = call.symbol
            /\ Last(histReqs).barSizeSetting = call.topbar0.timeframe
            /\ topbar.symbol = call.symbol
            /\ topbar.timeframe = call.topbar0.timeframe

C5_Witness ==
    /\ call.op = "on_search" /\ call.outcome = "ok"
    /\ call.symbol = "MSFT" /\ call.topbar0.symbol # "MSFT"
    /\ call.topbar0.timeframe # DEFAULT_TIMEFRAME
    /\ topbar.symbol = "MSFT"
    /\ Last(histReqs).contract.symbol = "MSFT"

\* ------------------------------------------------------------------ C6
\* C6: a place_order call that finds no order id on the client after its wait
\* returns without any placeOrder call and with exactly one error logged.
C6_Theorem ==
    (/\ call.op = "place_order" /\ call.client0 = "attached"
     /\ call.outcome # "running" /\ call.order_id_seen = NoOrderId)
    => /\ call.outcome = "ok"
       /\ Len(orders) = call.orders0
       /\ log.error = call.errors0 + 1
       /\ reqIdsCalls = call.ids0 + 1

C6_Witness ==
    /\ call.op = "place_order" /\ call.outcome = "ok"
    /\ call.order_id_seen = NoOrderId
    /\ orders = <<>>
    /\ log.error = call.errors0 + 1

\* ------------------------------------------------------------------ C7
\* C7: a place_order call that finds an order id on the client after its wait
\* makes exactly one placeOrder call: under an id the client held after the
\* wait, for quantity 1, type MKT, the symbol displayed in the widget, and
\* BUY for key "B", SELL for key "S".
C7_Theorem ==
    (/\ call.op = "place_order" /\ call.outcome # "running"
     /\ call.order_id_seen # NoOrderId)
    => /\ call.outcome = "ok"
       /\ Len(orders) = call.orders0 + 1
       /\ log.error = call.errors0
       /\ LET o == Last(orders) IN
            /\ o.orderId # NoOrderId
            /\ o.orderId \in call.order_id_seen .. order_id
            /\ o.order.totalQuantity = 1
            /\ o.order.orderType = "MKT"
            /\ o.contract.symbol = topbar.symbol
            /\ call.key = "B" => o.order.action = "BUY"
            /\ call.key = "S" => o.order.action = "SELL"

C7_Witness ==
    /\ call.op = "place_order" /\ call.outcome = "ok"
    /\ call.key = "S" /\ call.order_id_seen # NoOrderId
    /\ Len(orders) = 2
    /\ orders[1].order.action = "BUY"
    /\ orders[2].order.action = "SELL"
    /\ orders[2].contract.symbol = "MSFT"

\* ------------------------------------------------------------------ C8
\* C8: on_timeframe_selection changes neither the displayed symbol nor the
\* displayed dataset, and once it has returned it has issued exactly one
\* request, for the symbol displayed and the timeframe just selected.
C8_Theorem ==
    call.op = "on_timeframe_selection"
    => /\ topbar.symbol = call.topbar0.symbol
       /\ dataset = call.dataset0
       /\ call.outcome = "ok" =>
            /\ Len(histReqs) = call.reqs0 + 1
            /\ Last(histReqs).contract.symbol = topbar.symbol
            /\ Last(histReqs).barSizeSetting = topbar.timeframe
            /\ topbar.timeframe = call.timeframe

C8_Witness ==
    /\ call.op = "on_timeframe_selection" /\ call.outcome = "ok"
    /\ topbar.symbol = "MSFT"
    /\ call.timeframe = "5 mins" /\ call.topbar0.timeframe = "1 min"
    /\ dataset # <<>>
    /\ Len(histReqs) = call.reqs0 + 1

\* ------------------------------------------------------------------ C9
StateNames == {"client", "order_id", "data_queue", "topbar_symbol", "topbar_timeframe",
               "dataset", "spinner", "watermark"}

\* Written by the client's callback context and read or written on the GUI thread.
Shared(name) ==
    /\ <<"client", name, "w">> \in touched
    /\ \E mode \in {"r", "w"} : <<"gui", name, mode>> \in touched

\* C9 as stated: the queue is the only state written by the client's callback
\* context and read or written by a ChartHandler callback.
C9_Original == \A name \in StateNames \ {"data_queue"} : ~Shared(name)

\* C9, amended: the queue and client.order_id are the only state written by
\* the client's callback context and read or written by a ChartHandler
\* callback, and the callbacks only read client.order_id.
C9_Theorem ==
    /\ \A name \in StateNames \ {"data_queue", "order_id"} : ~Shared(name)
    /\ <<"gui", "order_id", "w">> \notin touched
    /\ \A t \in touched : t[2] \in StateNames

C9_Witness ==
    /\ Shared("data_queue")
    /\ Shared("order_id")
    /\ orders # <<>>

\* ------------------------------------------------------------------ C10
\* C10: with no client attached, on_timeframe_selection, on_search (both
\* through request_data) and place_order end in an unhandled error, never
\* normally, and issue no historical-data request, no reqIds and no placeOrder.
C10_Theorem ==
    (/\ call.op \in {"on_timeframe_selection", "on_search", "place_order"}
     /\ call.client0 = "none")
    => /\ call.outcome # "ok"
       /\ pc \in {"idle", "rd_begin"}
       /\ pc = "idle" => call.outcome = "error"
       /\ Len(histReqs) = call.reqs0
       /\ reqIdsCalls = call.ids0
       /\ Len(orders) = call.orders0
       /\ log.error = call.errors0

C10_Witness ==
    /\ client = "none"
    /\ calls = 3
    /\ call.op = "on_search" /\ call.outcome = "error"
    /\ histReqs = <<>> /\ reqIdsCalls = 0 /\ orders = <<>>

\* ------------------------------------------------------------------ C11
\* C11: every update_chart call ends (the client pushes finitely many bars),
\* and it ends only on the empty-queue signal: when its drain loop ends the
\* queue is empty and the call has collected, in order, every bar that was in
\* the queue when it was called, however many there were.
C11_Theorem ==
    /\ [][UpdateChartReturns =>
            /\ data_queue = <<>>
            /\ Len(frame.bars) >= Len(call.queue0)
            /\ SubSeq(frame.bars, 1, Len(call.queue0)) = call.queue0]_vars
    /\ (pc = "uc_drain") ~> (pc = "idle")

C11_Witness ==
    /\ call.op = "update_chart" /\ call.outcome = "ok" /\ call.pushed
    /\ call.queue0 # <<>>
    /\ Len(Last(drains)) > Len(call.queue0)
    /\ dataset = Last(drains)
    /\ data_queue = <<>>

\* ------------------------------------------------------------------ C12
RECURSIVE Flatten(_)
Flatten(batches) ==
    IF batches = <<>> THEN <<>> ELSE Head(batches) \o Flatten(Tail(batches))

\* In the order the client pushed them.
InPushOrder(bars) == \A i, j \in 1..Len(bars) : i < j => bars[i].id < bars[j].id

\* C12: whatever the interleaving of pushes and update_chart calls, every bar
\* pushed so far is in exactly one place exactly once -- collected by one
\* update_chart call, or else still in the queue -- and the bars a call
\* collected, and the dataset it displayed, are in the order they were pushed.
C12_Theorem ==
    LET everywhere == Flatten(drains) \o frame.bars \o data_queue IN
    /\ Len(everywhere) = nextBar - 1
    /\ {everywhere[i].id : i \in 1..Len(everywhere)} = 1..(nextBar - 1)
    /\ \A k \in 1..Len(drains) : InPushOrder(drains[k])
    /\ InPushOrder(frame.bars)
    /\ InPushOrder(dataset)
    /\ dataset # <<>> => \E k \in 1..Len(drains) : dataset = drains[k]

C12_Witness ==
    /\ call.op = "update_chart" /\ call.pushed
    /\ \E i, j \in 1..Len(drains) :
         /\ i < j
         /\ drains[i] # <<>> /\ drains[j] # <<>>
         /\ drains[i][1].id < drains[j][1].id
    /\ nextBar > 2

\* ------------------------------------------------------------------ C13
\* The client answers reqIds calls in the order they were made and its n-th
\* answer carries id n: the id that answers the reqIds call of the running
\* place_order is the one after the reqIds calls made before it.
AnswerToThisCall == call.ids0 + 1

\* C13: no two placeOrder calls carry the same order id, and the id a
\* place_order invocation submits is the one delivered in answer to its own
\* reqIds call.
C13_Claim ==
    /\ \A i, j \in 1..Len(orders) : i # j => orders[i].orderId # orders[j].orderId
    /\ (/\ call.op = "place_order" /\ call.outcome = "ok"
        /\ Len(orders) = call.orders0 + 1)
       => Last(orders).orderId = AnswerToThisCall

\* ------------------------------------------------------------------ C14
\* C14: once two historical-data requests for different symbols have been
\* made, the dataset an update_chart call displays holds only bars delivered
\* in answer to the most recent request, which are bars of the symbol the
\* widget's textbox and the watermark show.
C14_Claim ==
    (/\ call.op = "update_chart" /\ call.outcome = "ok" /\ call.sets = 1
     /\ Len(histReqs) >= 2
     /\ histReqs[Len(histReqs) - 1].contract.symbol # Last(histReqs).contract.symbol)
    => \A i \in 1..Len(dataset) :
         /\ dataset[i].req = Len(histReqs)
         /\ histReqs[dataset[i].req].contract.symbol = topbar.symbol
         /\ histReqs[dataset[i].req].contract.symbol = watermark

\* ------------------------------------------------------------------ C15
\* C15: whenever no callback is running on the GUI thread the spinner is
\* hidden, also after a callback that ended in an error.
C15_Claim == pc = "idle" => spinner = FALSE

\* ------------------------------------------------------------------ C16
\* C16: once an on_search or on_timeframe_selection callback has returned
\* normally, the watermark equals the symbol in the widget's textbox, and both
\* equal the symbol of the most recent historical-data request.
C16_Theorem ==
    (call.op \in {"on_search", "on_timeframe_selection"} /\ call.outcome = "ok")
    => /\ watermark = topbar.symbol
       /\ histReqs # <<>>
       /\ Last(histReqs).contract.symbol = watermark
       /\ Last(histReqs).contract.symbol = topbar.symbol

C16_Witness ==
    /\ call.op = "on_search" /\ call.outcome = "ok"
    /\ call.topbar0.symbol = "AAPL"
    /\ Len(histReqs) = 2
    /\ histReqs[1].contract.symbol = "AAPL"
    /\ watermark = "MSFT" /\ topbar.symbol = "MSFT"
    /\ Last(histReqs).contract.symbol = "MSFT"

\* ------------------------------------------------------------------ C17
\* C17: whatever the configured default currency, the contract of every order
\* place_order submits has the security type, exchange and currency of the
\* contract request_data builds for the same symbol.
C17_Claim ==
    \A i \in 1..Len(orders) :
        LET placed == orders[i].contract
            requested == Contract(placed.symbol, config.currency)
        IN /\ placed.secType = requested.secType
           /\ placed.exchange = requested.exchange
           /\ placed.currency = requested.currency
====
